---- MODULE Spec2Model ----
(***************************************************************************)
(* taskmeister: the Orchestrator event loop (jobs.rs, events.rs,           *)
(* orchestrate.rs), the Watcher poll loop (watcher.rs), the Service        *)
(* Registry diff (service.rs) and the I/O Router inbox (io_router.rs).      *)
(*                                                                         *)
(* HashMaps are functions whose DOMAIN is the set of keys present.         *)
(* Variables and record fields whose name starts with g_ are history       *)
(* variables: the program never reads them.                                *)
(***************************************************************************)
EXTENDS Naturals, Integers, Sequences, FiniteSets, TLC

\* ------------------------------------------------------------------ bounds
MaxRequests == 2      \* client requests posted in one behaviour
MaxInbox == 2         \* messages waiting in the Orchestrator inbox

U8 == 256             \* Job.retries is a u8

Aliases == {"a1"}
\* The codes a child exits with: 0 is in every exit_codes below, 1 is in none.
ExitCodes == {0, 1}

\* ------------------------------------------------------------- JobStatus
Created == [tag |-> "Created"]
Starting == [tag |-> "Starting"]
Running(healthy) == [tag |-> "Running", healthy |-> healthy]
Stopping == [tag |-> "Stopping"]
Finished(code) == [tag |-> "Finished", code |-> code]
TimedOut == [tag |-> "TimedOut"]

\* ---------------------------------------------------------- RestartOptions
Never == [type |-> "Never"]
Always(n) == [type |-> "Always", retries |-> n]
OnError(n) == [type |-> "OnError", retries |-> n]

\* ------------------------------------------------------- OrchestratorError
Ok == "OK"
ServiceNotFound == "Service not found"
ServiceUpdate == "While updating services"
ServiceStopped == "Stopping service"
ServiceAlreadyStarted == "Service already started"
ServiceAlreadyStopping == "Service already stopped"
JobNotFound == "Job not found"
JobIoError == "Job I/O error"
JobAlreadyAttached == "Job already attached"

\* ----------------------------------------------------------------- signals
SigStop == "stop_signal"
SIGKILL == "SIGKILL"
NoSignal == "none"

\* ----------------------------------------------------------------- Service
\* The fields of a Service the Orchestrator reads. spawn_ok abstracts cmd and
\* working_dir: whether Command::spawn succeeds for this definition.
\* The service files the model loads: one per restart policy, with start_time
\* and stop_wait of 0 or 1 second.
SvcNever ==
    [restart |-> Never, exit_codes |-> {0}, start_time |-> 1, stop_wait |-> 1,
     spawn_ok |-> TRUE, sinks_ok |-> TRUE]
SvcAlways ==
    [restart |-> Always(2), exit_codes |-> {0}, start_time |-> 0, stop_wait |-> 1,
     spawn_ok |-> TRUE, sinks_ok |-> TRUE]
SvcOnError ==
    [restart |-> OnError(2), exit_codes |-> {0}, start_time |-> 1, stop_wait |-> 0,
     spawn_ok |-> TRUE, sinks_ok |-> TRUE]
\* A definition whose cmd cannot be spawned.
SvcBroken ==
    [restart |-> Never, exit_codes |-> {0}, start_time |-> 1, stop_wait |-> 1,
     spawn_ok |-> FALSE, sinks_ok |-> TRUE]
ServiceDefs == {SvcNever, SvcAlways, SvcOnError, SvcBroken}

validate_exit_code(service, exit_code) == exit_code \in service.exit_codes

\* ------------------------------------------------------------ map helpers
Insert(map, key, value) ==
    [k \in DOMAIN map \cup {key} |-> IF k = key THEN value ELSE map[k]]
Remove(map, key) == [k \in DOMAIN map \ {key} |-> map[k]]
EmptyMap == [k \in {} |-> 0]

\* ---------------------------------------------------------- WatchedTimeout
NoTimeout == [set |-> FALSE]
\* g_kind: which deadline this is, "start" (armed at spawn) or "stop" (armed by
\* kill_job). left = 0: created_at.elapsed() >= time.
WatchedTimeout(g_kind, secs) == [set |-> TRUE, g_kind |-> g_kind, left |-> secs]
has_timed_out(timeout) == timeout.set /\ timeout.left = 0
timeout_remove(timeout) == NoTimeout

\* ------------------------------------------------------------------- JobFlags
DefaultFlags == [remove_service |-> FALSE, restart_job |-> FALSE]

VARIABLES
    services,      \* Orchestrator.services: alias -> Service (the registry)
    disk,          \* the service files on disk: alias -> Service
    jobs,          \* Orchestrator.jobs: alias -> Job
    watched,       \* Orchestrator.watched (shared with the Watcher): alias -> Watched
    inbox,         \* messages_rx: the unified inbox, FIFO
    io_requests,   \* io_router_requests: the I/O Router's inbox, FIFO
    ios,           \* io_router::route ios: alias -> Tee
    streams,       \* the forwarding channels made for Attach requests, by number
    reply,         \* the ResponsePart sent for the last request handled
    g_warned,      \* start_request logged "old where not cleaned up from the watcher"
    g_finished,    \* alias -> number of Finished events the Orchestrator handled
    g_start_to,    \* aliases whose current Watched had its start deadline's TimedOut emitted
    g_nreq,        \* client requests posted so far
    g_up,          \* the diff the last Reload computed (Services::update's up)
    g_loaded,      \* the service files as load_services last read them
    alive          \* the Orchestrator thread has not panicked

vars ==
    <<services, disk, jobs, watched, inbox, io_requests, ios, streams, reply,
      g_warned, g_finished, g_start_to, g_nreq, g_up, g_loaded, alive>>

\* ----------------------------------------------------------------- records
\* started is None (0) or the timestamp of the last spawn, told apart by the
\* number of the spawn that wrote it.
Job(status) ==
    [status |-> status, retries |-> 0, last_exit_code |-> 0, flags |-> DefaultFlags,
     started |-> 0]

\* A child process: "run" (alive), "zombie" (exited, not yet reaped by try_wait),
\* "reaped" (try_wait returned its status, which Child caches). g_sig is the
\* last signal the Orchestrator sent it, g_fin the number of Finished events
\* the Watcher has sent for it (counted up to 2).
Process == [st |-> "run", code |-> 0, g_sig |-> NoSignal, g_fin |-> 0]

Watched(process, previous_status, timeout) ==
    [process |-> process, previous_status |-> previous_status, timeout |-> timeout]

JobEvent(alias, status, g_kind) ==
    [type |-> "Event", alias |-> alias, status |-> status, g_kind |-> g_kind]
Request(action, alias) == [type |-> "Request", action |-> action, alias |-> alias]

\* IoRouterRequest
\* sinks_ok: the two default paths of the request can be opened.
Create(alias, sinks_ok) == [req |-> "Create", alias |-> alias, sinks_ok |-> sinks_ok]
RemoveTee(alias) == [req |-> "Remove", alias |-> alias]
StopForwarding(alias) == [req |-> "StopForwarding", alias |-> alias]

\* The state the Orchestrator thread reads and writes while it handles one message.
\* overflow_checks is the build's overflow-checks option (on in a debug build,
\* off in a release build): the step that needs it sets it.
Orch ==
    [services |-> services, jobs |-> jobs, watched |-> watched, io |-> io_requests,
     g_warned |-> g_warned, g_finished |-> g_finished, g_start_to |-> g_start_to,
     g_up |-> g_up, g_loaded |-> g_loaded, alive |-> alive, overflow_checks |-> FALSE]

\* ------------------------------------------------------- get/set utilities
get_job_status(o, alias) == o.jobs[alias].status

set_job_status(o, alias, status) ==
    IF alias \in DOMAIN o.jobs THEN [o EXCEPT !.jobs[alias].status = status] ELSE o

\* job.started = Some(logger::timestamp()); the count stops at U8
set_job_timestamp(o, alias) ==
    [o EXCEPT !.jobs[alias].started = IF @ < U8 THEN @ + 1 ELSE @]

\* job.retries += 1 on a u8: at 255 the thread panics when the build checks
\* overflow, and the value wraps to 0 when it does not.
inc_job_retries(o, alias) ==
    IF o.jobs[alias].retries + 1 = U8 /\ o.overflow_checks
    THEN [o EXCEPT !.alive = FALSE]
    ELSE [o EXCEPT !.jobs[alias].retries = (@ + 1) % U8]

\* JobFlags::consume: returns the flags and resets them to the default.
consume_job_flags(o, alias) ==
    IF alias \in DOMAIN o.jobs
    THEN [o |-> [o EXCEPT !.jobs[alias].flags = DefaultFlags], flags |-> o.jobs[alias].flags]
    ELSE [o |-> o, flags |-> DefaultFlags]

set_job_flags(o, alias, remove_service, restart_job) ==
    [o EXCEPT !.jobs[alias].flags =
        [remove_service |-> remove_service, restart_job |-> restart_job]]

remove_service(o, alias) == [o EXCEPT !.services = Remove(@, alias)]

set_watched_status(o, alias, new_status) ==
    IF alias \in DOMAIN o.watched
    THEN [o EXCEPT !.watched[alias].previous_status = new_status]
    ELSE o

remove_watched(o, alias) ==
    [o EXCEPT !.watched = Remove(@, alias), !.g_start_to = @ \ {alias}]

remove_watched_timeout(o, alias) ==
    IF alias \in DOMAIN o.watched
    THEN [o EXCEPT !.watched[alias].timeout = timeout_remove(@)]
    ELSE o

io_send(o, request) == [o EXCEPT !.io = Append(@, request)]

\* --------------------------------------------------------------- processes
\* kill(2): fails (ESRCH) once the child was reaped. A running child dies of
\* SIGKILL; it dies of the stop signal when `dies`, and ignores it otherwise.
\* A child killed by a signal has no exit code: the Watcher reports 0.
kill(process, signal, dies) ==
    IF process.st = "reaped"
    THEN [ok |-> FALSE, process |-> process]
    ELSE [ok |-> TRUE,
          process |->
            IF process.st = "run" /\ (signal = SIGKILL \/ dies)
            THEN [process EXCEPT !.st = "zombie", !.code = 0, !.g_sig = signal]
            ELSE [process EXCEPT !.g_sig = signal]]

create_job(o, alias) ==
    IF alias \in DOMAIN o.jobs THEN o
    ELSE [o EXCEPT !.jobs = Insert(@, alias, Job(Created))]

\* The Create request a spawn hands the child's pipes to the I/O Router with.
io_create(o, alias) == io_send(o, Create(alias, o.services[alias].sinks_ok))

\* res: Ok or the error; old: watched.insert returned Some(old entry).
start_job(o, alias) ==
    IF alias \notin DOMAIN o.services
    THEN [o |-> o, res |-> ServiceNotFound, old |-> FALSE]
    ELSE LET service == o.services[alias] IN
         IF ~service.spawn_ok
         THEN [o |-> o, res |-> JobIoError, old |-> FALSE]
         ELSE [o |-> [io_create(o, alias) EXCEPT
                        !.watched = Insert(@, alias,
                            Watched(Process, Starting,
                                    WatchedTimeout("start", service.start_time))),
                        !.g_start_to = @ \ {alias}],
               res |-> Ok,
               old |-> alias \in DOMAIN o.watched]

\* Sets the deadline of the Watched entry, then signals the process.
kill_job(o, alias, signal, timeout, dies) ==
    IF alias \notin DOMAIN o.watched
    THEN [o |-> o, res |-> JobNotFound]
    ELSE LET k == kill(o.watched[alias].process, signal, dies) IN
         [o |-> [o EXCEPT !.watched[alias].timeout = WatchedTimeout("stop", timeout),
                          !.watched[alias].process = k.process],
          res |-> IF k.ok THEN Ok ELSE JobIoError]

stop_job(o, alias, dies) ==
    IF alias \notin DOMAIN o.services
    THEN [o |-> o, res |-> ServiceNotFound]
    ELSE kill_job(o, alias, SigStop, o.services[alias].stop_wait, dies)

\* ---------------------------------------------------------------- requests
\* start_request with Running left out of the statuses it refuses.
StartResponse_RunningAccepted(status) ==
    IF status.tag \in {"Starting", "Stopping", "TimedOut"}
    THEN ServiceAlreadyStarted
    ELSE Ok

StartResponse(status) ==
    IF status.tag \in {"Starting", "Running", "Stopping", "TimedOut"}
    THEN ServiceAlreadyStarted
    ELSE Ok

start_request(o, alias) ==
    LET o1 == create_job(o, alias)
        status == o1.jobs[alias].status
        response == StartResponse(status)
        o2 == IF status.tag = "Finished"
              THEN [o1 EXCEPT !.jobs[alias].last_exit_code = status.code]
              ELSE o1
        \* Update job
        o3 == [o2 EXCEPT !.jobs[alias].status = Starting]
    IN  IF response = Ok
        THEN LET s == start_job(set_job_timestamp(o3, alias), alias) IN
             [o |-> [s.o EXCEPT !.g_warned = @ \/ s.old], res |-> s.res]
        ELSE [o |-> o3, res |-> response]

StopResponse(status) ==
    CASE status.tag \in {"Starting", "Running"} -> Ok
      [] status.tag \in {"Stopping", "TimedOut"} -> ServiceAlreadyStopping
      [] status.tag \in {"Finished", "Created"} -> ServiceStopped

\* A Stop that deletes the Job of a service to remove as soon as it is accepted.
stop_request_DropsJob(o, alias, remove_service_, restart_job, dies) ==
    IF alias \notin DOMAIN o.jobs
    THEN [o |-> o, res |-> JobNotFound]
    ELSE
    LET status == o.jobs[alias].status
        response == StopResponse(status)
        o2 == [o EXCEPT !.jobs[alias].status = Stopping]
    IN  IF response = Ok
        THEN LET r == stop_job(set_job_flags(o2, alias, remove_service_, restart_job),
                               alias, dies)
             IN  IF remove_service_
                 THEN [o |-> [r.o EXCEPT !.jobs = Remove(@, alias)], res |-> r.res]
                 ELSE r
        ELSE [o |-> o2, res |-> response]

stop_request(o, alias, remove_service_, restart_job, dies) ==
    IF alias \notin DOMAIN o.jobs
    THEN [o |-> o, res |-> JobNotFound]
    ELSE
    LET status == o.jobs[alias].status
        response == StopResponse(status)
        o1 == IF status.tag = "Finished"
              THEN [o EXCEPT !.jobs[alias].last_exit_code = status.code]
              ELSE o
        \* Update job
        o2 == [o1 EXCEPT !.jobs[alias].status = Stopping]
    IN  IF response = Ok
        THEN stop_job(set_job_flags(o2, alias, remove_service_, restart_job), alias, dies)
        ELSE [o |-> o2, res |-> response]

\* ------------------------------------------------------------------ events
\* Each branch gives the Orchestrator state after its side effects, the new
\* Job status and whether the job is to be restarted.
on_running(o, event, previous_status) ==
    CASE previous_status.tag \in {"Created", "Finished", "Running"} ->
            [o |-> o, new_status |-> event.status, restart |-> FALSE]
      [] previous_status.tag = "Stopping" ->
            [o |-> o, new_status |-> Stopping, restart |-> FALSE]
      [] previous_status.tag = "Starting" ->
            \* Watched to starting, wait the timeout to set the job as healthy
            [o |-> set_watched_status(o, event.alias, Running(FALSE)),
             new_status |-> Running(FALSE), restart |-> FALSE]
      [] previous_status.tag = "TimedOut" ->
            [o |-> o, new_status |-> Running(TRUE), restart |-> FALSE]

\* service.restart applied to a Finished(exit_code) that no Stop asked for
apply_restart(o, event, service) ==
    CASE service.restart.type = "Never" ->
            [o |-> o, new_status |-> event.status, restart |-> FALSE]
      [] service.restart.type = "Always" ->
            LET o1 == inc_job_retries(o, event.alias)
                current_retries == o1.jobs[event.alias].retries
            IN  [o |-> o1, new_status |-> event.status,
                 restart |-> current_retries < service.restart.retries]
      [] service.restart.type = "OnError" ->
            LET o1 == inc_job_retries(o, event.alias)
                current_retries == o1.jobs[event.alias].retries
            IN  [o |-> o1, new_status |-> event.status,
                 restart |-> /\ ~validate_exit_code(service, event.status.code)
                             /\ current_retries < service.restart.retries]

\* A Finished branch that counts a stop as one more retry.
on_finished_CountsStops(o, event, service, previous_status) ==
    LET o1 == remove_watched(
                io_send(io_send(o, StopForwarding(event.alias)), RemoveTee(event.alias)),
                event.alias)
    IN  IF previous_status = Stopping
        THEN [o |-> inc_job_retries(o1, event.alias), new_status |-> event.status,
              restart |-> FALSE]
        ELSE apply_restart(o1, event, service)

on_finished(o, event, service, previous_status) ==
    LET \* End the forwarding cleanly if any, remove the I/O handler,
        \* then remove the watched job
        o1 == remove_watched(
                io_send(io_send(o, StopForwarding(event.alias)), RemoveTee(event.alias)),
                event.alias)
        \* the count stops at U8
        o2 == [o1 EXCEPT !.g_finished[event.alias] = IF @ < U8 THEN @ + 1 ELSE @]
    IN  IF previous_status = Stopping
        THEN LET c == consume_job_flags(o2, event.alias)
                 o3 == IF c.flags.remove_service
                       THEN remove_service(c.o, event.alias)
                       ELSE c.o
             IN  [o |-> o3, new_status |-> event.status, restart |-> c.flags.restart_job]
        ELSE apply_restart(o2, event, service)

on_timed_out(o, event, service, previous_status) ==
    CASE previous_status.tag \in {"Running", "Starting"} ->
            \* If it comes from running it means it is healthy now
            [o |-> remove_watched_timeout(o, event.alias),
             new_status |-> Running(TRUE), restart |-> FALSE]
      [] previous_status.tag \in {"TimedOut", "Stopping"} ->
            [o |-> kill_job(o, event.alias, SIGKILL, service.stop_wait, TRUE).o,
             new_status |-> Stopping, restart |-> FALSE]
      [] OTHER ->
            [o |-> o, new_status |-> TimedOut, restart |-> FALSE]

manage_event(o, event) ==
    IF event.alias \notin DOMAIN o.services THEN o
    ELSE IF event.alias \notin DOMAIN o.jobs THEN o
    ELSE
    LET service == o.services[event.alias]
        previous_status == get_job_status(o, event.alias)
        r == CASE event.status.tag \in {"Created", "Starting", "Stopping"} ->
                    [o |-> o, new_status |-> event.status, restart |-> FALSE]
               [] event.status.tag = "Running" ->
                    on_running(o, event, previous_status)
               [] event.status.tag = "Finished" ->
                    on_finished(o, event, service, previous_status)
               [] event.status.tag = "TimedOut" ->
                    on_timed_out(o, event, service, previous_status)
    IN  IF ~r.o.alive THEN r.o
        ELSE IF event.alias \notin DOMAIN r.o.jobs THEN r.o
        ELSE LET o1 == [r.o EXCEPT !.jobs[event.alias].status = r.new_status] IN
             \* If job needs to be restarted, do it
             IF r.restart THEN start_request(o1, event.alias).o ELSE o1

\* --------------------------------------------------------- Service Registry
\* Services::update: the diff (Restart for the aliases of both whose definitions
\* differ, then Stop for the aliases of the registry only) and the new registry:
\* what was loaded, plus the entries that are no longer on disk.
\* A diff that restarts every service found both in the registry and on disk.
update_diff_IgnoresEquality(old, new, order) ==
    SelectSeq(order, LAMBDA a : a \in DOMAIN new /\ a \in DOMAIN old)

update_diff(old, new, order) ==
    SelectSeq(order, LAMBDA a : a \in DOMAIN new /\ a \in DOMAIN old /\ old[a] # new[a])
update_gone(old, new, order) ==
    SelectSeq(order, LAMBDA a : a \in DOMAIN old /\ a \notin DOMAIN new)
update_services(old, new) ==
    [a \in DOMAIN new \cup DOMAIN old |-> IF a \in DOMAIN new THEN new[a] ELSE old[a]]

Restarts(aliases) == [i \in 1..Len(aliases) |-> Request("Restart", aliases[i])]
Stops(aliases) == [i \in 1..Len(aliases) |-> Request("Stop", aliases[i])]

update(old, new, order) ==
    [up |-> Restarts(update_diff(old, new, order)) \o Stops(update_gone(old, new, order)),
     services |-> update_services(old, new)]

\* One action of the diff, as Reload runs it.
reload_action(o, action, dies) ==
    CASE action.action = "Start" -> start_request(o, action.alias)
      [] action.action = "Restart" ->
            LET r == stop_request(o, action.alias, TRUE, TRUE, dies) IN
            \* Service stopped error on restart is ok status
            [o |-> r.o, res |-> IF r.res = ServiceStopped THEN Ok ELSE r.res]
      [] action.action = "Stop" -> stop_request(o, action.alias, TRUE, FALSE, dies)
      [] OTHER -> [o |-> o, res |-> Ok]

\* A loop that runs every action of the diff and keeps the last result.
RECURSIVE reload_loop_RunsEveryAction(_, _, _, _)
reload_loop_RunsEveryAction(o, up, res, dies) ==
    IF up = <<>>
    THEN [o |-> o, res |-> res]
    ELSE LET r == reload_action(o, Head(up), dies) IN
         reload_loop_RunsEveryAction(r.o, Tail(up), r.res, dies)

\* for service in up_services { res = ...; if res.is_err() { break; } }
RECURSIVE reload_loop(_, _, _, _)
reload_loop(o, up, res, dies) ==
    IF up = <<>> \/ res # Ok
    THEN [o |-> o, res |-> res]
    ELSE LET r == reload_action(o, Head(up), dies) IN
         reload_loop(r.o, Tail(up), r.res, dies)

\* A reload that installs the diff's registry although the load failed.
reload_AppliesFailedLoad(o, order, dies, loads) ==
    LET u == update(o.services, disk, order) IN
    IF ~loads
    THEN [o |-> [o EXCEPT !.services = u.services, !.g_up = <<>>], res |-> ServiceUpdate]
    ELSE reload_loop([o EXCEPT !.services = u.services, !.g_up = u.up, !.g_loaded = disk],
                     u.up, Ok, dies)

\* loads: load_services read and parsed every file, and no alias twice.
reload(o, order, dies, loads) ==
    IF ~loads
    THEN [o |-> [o EXCEPT !.g_up = <<>>], res |-> ServiceUpdate]
    ELSE LET u == update(o.services, disk, order) IN
         reload_loop([o EXCEPT !.services = u.services, !.g_up = u.up, !.g_loaded = disk],
                     u.up, Ok, dies)

\* --------------------------------------------------------------- orchestrate
\* One message of the inbox: a client request, answered on its reply channel,
\* or a Watcher event.
handle_request(o, request, order, dies, loads) ==
    CASE request.action = "Start" -> start_request(o, request.alias)
      [] request.action = "Restart" -> stop_request(o, request.alias, FALSE, TRUE, dies)
      [] request.action = "Stop" -> stop_request(o, request.alias, FALSE, FALSE, dies)
      [] request.action = "Reload" -> reload(o, order, dies, loads)

\* impl From<Result<T, E>> for ResponsePart
ResponsePart(request, res) ==
    [action |-> request.action, alias |-> request.alias,
     part |-> IF res = Ok THEN "Info" ELSE "Error", text |-> res]

\* The sequences that list each element of S once.
Orders(S) ==
    {f \in [1..Cardinality(S) -> S] : \A i, j \in DOMAIN f : i # j => f[i] # f[j]}

Commit(o) ==
    /\ services' = o.services
    /\ jobs' = o.jobs
    /\ watched' = o.watched
    /\ io_requests' = o.io
    /\ g_warned' = o.g_warned
    /\ g_finished' = o.g_finished
    /\ g_start_to' = o.g_start_to
    /\ g_up' = o.g_up
    /\ g_loaded' = o.g_loaded
    /\ alive' = o.alive

\* The outcomes of a choice that the step takes only when it is `asked`.
Outcomes(asked) == IF asked THEN BOOLEAN ELSE {TRUE}

\* ------------------------------------------------------------------ Watcher
\* Child::try_wait reaps a child that has exited.
try_wait(process) ==
    IF process.st = "zombie" THEN [process EXCEPT !.st = "reaped"] ELSE process

\* The status the Watcher reports for a child that is still running.
WatcherRunning == Running(TRUE)

exit_status_to_job_status(process) ==
    IF process.st = "run" THEN WatcherRunning ELSE Finished(process.code)

\* self.watcher_tx.send(JobEvent { alias, status }) for this child.
sent(process, status) ==
    IF status.tag = "Finished" /\ process.g_fin < 2
    THEN [process EXCEPT !.g_fin = @ + 1]
    ELSE process

\* One Watched entry in one scan: the entry afterwards and the events sent.
watch_job(alias, job) ==
    IF has_timed_out(job.timeout)
    THEN [job |-> [job EXCEPT !.previous_status = TimedOut],
          events |-> <<JobEvent(alias, TimedOut, job.timeout.g_kind)>>]
    ELSE LET process == try_wait(job.process)
             new_status == exit_status_to_job_status(process)
         IN  IF new_status # job.previous_status
             THEN [job |-> [job EXCEPT !.process = sent(process, new_status),
                                       !.previous_status = new_status],
                   events |-> <<JobEvent(alias, new_status, "none")>>]
             ELSE [job |-> [job EXCEPT !.process = process], events |-> <<>>]

\* for (alias, jobs) in watched_jobs.lock().unwrap().iter_mut()
RECURSIVE watch_scan(_, _, _)
watch_scan(order, watched_jobs, events) ==
    IF order = <<>>
    THEN [watched |-> watched_jobs, events |-> events]
    ELSE LET alias == Head(order)
             r == watch_job(alias, watched_jobs[alias])
         IN  watch_scan(Tail(order), [watched_jobs EXCEPT ![alias] = r.job],
                        events \o r.events)

StartTimeouts(events) ==
    {events[i].alias : i \in {j \in DOMAIN events :
        events[j].status = TimedOut /\ events[j].g_kind = "start"}}

\* One tick of the Watcher: the whole scan, under the lock.
watch ==
    /\ watched # EmptyMap
    /\ \E order \in Orders(DOMAIN watched) :
          LET r == watch_scan(order, watched, <<>>) IN
          /\ Len(inbox) + Len(r.events) <= MaxInbox
          /\ watched' = r.watched
          /\ inbox' = inbox \o r.events
          /\ g_start_to' = g_start_to \cup StartTimeouts(r.events)
    /\ UNCHANGED <<services, disk, jobs, io_requests, ios, streams, reply, g_warned,
                   g_finished, g_nreq, g_up, g_loaded, alive>>

\* ------------------------------------------------------------- I/O Router
DRAIN_TIMES == 100
IO_ROUTER_READ_BUF_LEN == 1024
DEQUE_BUF_LEN == 10

\* The capacity of the bounded channel an Attach request makes.
ChannelCap == 1

\* Option::None for a forwarding channel; a channel is named by its number.
None == 0

\* VecDeque::with_capacity: the number of elements it holds without growing.
VecDeque(capacity) == [capacity |-> capacity, elems |-> <<>>]

\* A push that refuses the new element when the buffer is full.
ring_buf_push_KeepsOldest(buff, element) ==
    IF Len(buff.elems) = buff.capacity
    THEN buff
    ELSE [buff EXCEPT !.elems = Append(@, element)]

ring_buf_push(buff, element) ==
    LET kept == IF Len(buff.elems) = buff.capacity THEN Tail(buff.elems) ELSE buff.elems
    IN  [buff EXCEPT !.elems = Append(kept, element)]

\* The tx.send the Router thread waits in: at is "none", or the loop that
\* called forward ("read": the for loop of a tick, "drain": a loop of
\* StopForwarding, with the value of times); out names the stream and slice
\* is what is being sent.
NoSend == [at |-> "none", out |-> "stdout", times |-> 0, slice |-> None]

\* Stdout and Stderr. pipe holds the slices the child wrote that no read has
\* taken yet, oldest first; g_wrote is how many the child wrote; def holds the
\* slices written to the default file.
Stdio ==
    [pipe |-> <<>>, tx |-> None, g_wrote |-> 0,
     buff |-> VecDeque(IO_ROUTER_READ_BUF_LEN * DEQUE_BUF_LEN), def |-> <<>>]

\* Tee::new. In the specifications of Attach a slice is named by its number
\* among those the child wrote to stdout.
Tee == [stdout |-> Stdio, stderr |-> Stdio, send |-> NoSend]

\* The bounded channel of one Attach request and the reply channel behind it.
\* chan: the slices sent and not yet received by the forwarder; parts: the
\* Stream parts the forwarder pushed; closed: every sender was dropped;
\* done: the forwarder ended. g_from: the slices the child had written when
\* the channel was made.
Stream(alias, g_from) ==
    [alias |-> alias, chan |-> <<>>, parts |-> <<>>, closed |-> FALSE,
     done |-> FALSE, g_from |-> g_from]

StartForwarding(alias, tx) == [req |-> "StartForwarding", alias |-> alias, tx |-> tx]
ReadBuff(alias) == [req |-> "ReadBuff", alias |-> alias]

\* The state the Router thread reads and writes.
Router == [ios |-> ios, streams |-> streams]

\* SyncSender::send has to wait: the channel is full and its receiver lives.
Full(r, tx) ==
    /\ tx # None
    /\ ~r.streams[tx].done
    /\ Len(r.streams[tx].chan) >= ChannelCap

\* let _ = tx.send(..): the slice enters the channel; the error of a channel
\* whose receiver is gone is ignored.
send(r, tx, slice) ==
    IF tx = None THEN r
    ELSE IF r.streams[tx].done THEN r
    ELSE [r EXCEPT !.streams[tx].chan = Append(@, slice)]

\* let _ = stdout.write(..) on the default file
write_def(r, alias, out, slice) == [r EXCEPT !.ios[alias][out].def = Append(@, slice)]

\* Stdout::forward and Stderr::forward: one read of the pipe. more: Ok(true).
\* blocked: the thread waits in tx.send, the slice read and pushed to the ring
\* buffer, the default file not yet written.
forward(r, alias, out) ==
    LET stdio == r.ios[alias][out] IN
    IF stdio.pipe = <<>>
    THEN [r |-> r, more |-> FALSE, blocked |-> FALSE]
    ELSE LET slice == Head(stdio.pipe)
             pushed == [r EXCEPT !.ios[alias][out].pipe = Tail(@),
                                 !.ios[alias][out].buff = ring_buf_push(@, slice)]
         IN  IF Full(r, stdio.tx)
             THEN [r |-> [pushed EXCEPT !.ios[alias].send =
                            [at |-> "read", out |-> out, times |-> 0, slice |-> slice]],
                   more |-> TRUE, blocked |-> TRUE]
             ELSE [r |-> write_def(send(pushed, stdio.tx, slice), alias, out, slice),
                   more |-> TRUE, blocked |-> FALSE]

\* The Tees with a forward that waits in tx.send (one at most).
Sending(r) == {alias \in DOMAIN r.ios : r.ios[alias].send.at # "none"}

RouterBlocked(r) ==
    \E alias \in Sending(r) : Full(r, r.ios[alias][r.ios[alias].send.out].tx)

\* The tx.send the thread waited in returns and forward goes on to its end.
complete_send(r, alias) ==
    LET s == r.ios[alias].send
        r1 == send(r, r.ios[alias][s.out].tx, s.slice)
    IN  [write_def(r1, alias, s.out, s.slice) EXCEPT !.ios[alias].send = NoSend]

Done(r) == [r |-> r, blocked |-> FALSE]

\* while tee.stdout.forward(&mut buff).unwrap_or(false) && times != 0
RECURSIVE drain(_, _, _, _)
drain(r, alias, out, times) ==
    LET f == forward(r, alias, out) IN
    IF f.blocked
    THEN [r |-> [f.r EXCEPT !.ios[alias].send.at = "drain",
                            !.ios[alias].send.times = times],
          blocked |-> TRUE]
    ELSE IF f.more /\ times # 0 THEN drain(f.r, alias, out, times - 1)
    ELSE Done(f.r)

\* The senders of the Tee's forwarding channel are dropped.
drop_tx(r, alias) ==
    LET tx == r.ios[alias].stdout.tx IN
    IF tx # None THEN [r EXCEPT !.streams[tx].closed = TRUE] ELSE r

\* tee.stdout.tx = None; tee.stderr.tx = None
unset(r, alias) ==
    [drop_tx(r, alias) EXCEPT !.ios[alias].stdout.tx = None,
                              !.ios[alias].stderr.tx = None]

\* The StopForwarding arm from the loop over `out` on: the stdout loop, the
\* stderr loop, then the channels are unset. enter: the loop calls forward
\* (again), with `times`.
RECURSIVE drain_then_unset(_, _, _, _, _)
drain_then_unset(r, alias, out, enter, times) ==
    LET d == IF enter THEN drain(r, alias, out, times) ELSE Done(r) IN
    IF d.blocked THEN d
    ELSE IF out = "stdout"
    THEN drain_then_unset(d.r, alias, "stderr", TRUE, DRAIN_TIMES)
    ELSE Done(unset(d.r, alias))

\* A StartForwarding arm that takes the new channels whatever the Tee holds.
route_request_Replaces(r, req) ==
    CASE req.req = "StartForwarding" ->
            IF req.alias \in DOMAIN r.ios
            THEN Done([r EXCEPT !.ios[req.alias].stdout.tx = req.tx,
                                !.ios[req.alias].stderr.tx = req.tx])
            ELSE Done(r)
      [] req.req = "ReadBuff" ->
            Done(r)
      [] req.req = "StopForwarding" ->
            IF req.alias \in DOMAIN r.ios /\ r.ios[req.alias].stdout.tx # None
            THEN drain_then_unset(r, req.alias, "stdout", TRUE, DRAIN_TIMES)
            ELSE Done(r)
      [] req.req = "Create" ->
            IF req.sinks_ok /\ req.alias \notin DOMAIN r.ios
            THEN Done([r EXCEPT !.ios = Insert(@, req.alias, Tee)])
            ELSE Done(r)
      [] req.req = "Remove" ->
            IF req.alias \in DOMAIN r.ios
            THEN Done([drop_tx(r, req.alias) EXCEPT !.ios = Remove(@, req.alias)])
            ELSE Done(r)

\* A Router whose StopForwarding only drains stdout and whose Remove keeps
\* the Tee and its channels for the next child of the alias.
route_request_KeepsForwarding(r, req) ==
    CASE req.req = "StartForwarding" ->
            IF req.alias \in DOMAIN r.ios /\ r.ios[req.alias].stdout.tx = None
            THEN Done([r EXCEPT !.ios[req.alias].stdout.tx = req.tx,
                                !.ios[req.alias].stderr.tx = req.tx])
            ELSE Done(r)
      [] req.req = "ReadBuff" ->
            Done(r)
      [] req.req = "StopForwarding" ->
            IF req.alias \in DOMAIN r.ios /\ r.ios[req.alias].stdout.tx # None
            THEN LET d == drain(r, req.alias, "stdout", DRAIN_TIMES) IN
                 IF d.blocked THEN d ELSE Done(drop_tx(d.r, req.alias))
            ELSE Done(r)
      [] req.req = "Create" ->
            IF req.sinks_ok /\ req.alias \notin DOMAIN r.ios
            THEN Done([r EXCEPT !.ios = Insert(@, req.alias, Tee)])
            ELSE Done(r)
      [] req.req = "Remove" ->
            IF req.alias \in DOMAIN r.ios
            THEN Done([r EXCEPT !.ios[req.alias].stdout.pipe = <<>>,
                                !.ios[req.alias].stdout.g_wrote = 0])
            ELSE Done(r)

\* One IoRouterRequest applied to the Router's state. blocked: the arm waits
\* in a tx.send.
route_request(r, req) ==
    CASE req.req = "StartForwarding" ->
            IF req.alias \in DOMAIN r.ios /\ r.ios[req.alias].stdout.tx = None
            THEN Done([r EXCEPT !.ios[req.alias].stdout.tx = req.tx,
                                !.ios[req.alias].stderr.tx = req.tx])
            ELSE Done(r)
      [] req.req = "ReadBuff" ->
            Done(r)
      [] req.req = "StopForwarding" ->
            IF req.alias \in DOMAIN r.ios /\ r.ios[req.alias].stdout.tx # None
            THEN drain_then_unset(r, req.alias, "stdout", TRUE, DRAIN_TIMES)
            ELSE Done(r)
      [] req.req = "Create" ->
            IF req.sinks_ok /\ req.alias \notin DOMAIN r.ios
            THEN Done([r EXCEPT !.ios = Insert(@, req.alias, Tee)])
            ELSE Done(r)
      [] req.req = "Remove" ->
            IF req.alias \in DOMAIN r.ios
            THEN Done([drop_tx(r, req.alias) EXCEPT !.ios = Remove(@, req.alias)])
            ELSE Done(r)

\* What the Router sends on the resp_channel of a StartForwarding.
route_reply(r, req) ==
    IF req.alias \in DOMAIN r.ios
    THEN IF r.ios[req.alias].stdout.tx # None THEN JobAlreadyAttached ELSE Ok
    ELSE JobNotFound

\* while let Ok(req) = requests.try_recv(): requests holds what an arm that
\* waits leaves in the inbox.
RECURSIVE route_drain(_, _)
route_drain(r, requests) ==
    IF requests = <<>> THEN [r |-> r, requests |-> <<>>, blocked |-> FALSE]
    ELSE LET q == route_request(r, Head(requests)) IN
         IF q.blocked
         THEN [r |-> q.r, requests |-> Tail(requests), blocked |-> TRUE]
         ELSE route_drain(q.r, Tail(requests))

\* The order in which the for loop of a tick meets the Tees.
ReadOrder(r) == CHOOSE order \in Orders(DOMAIN r.ios) : TRUE

\* for (_, tee) in &mut ios: one forward of stdout and one of stderr for each
\* Tee; order holds the Tees still to read and out the stream of the first
\* that is read next. The loop stops where a forward waits.
RECURSIVE route_read(_, _, _)
route_read(r, order, out) ==
    IF order = <<>> THEN r
    ELSE LET f == forward(r, Head(order), out) IN
         IF f.blocked THEN f.r
         ELSE IF out = "stdout" THEN route_read(f.r, order, "stderr")
         ELSE route_read(f.r, Tail(order), "stdout")

\* The Tees the for loop meets from `alias` on.
ReadOrderFrom(r, alias) ==
    LET order == ReadOrder(r)
        i == CHOOSE i \in DOMAIN order : order[i] = alias
    IN  SubSeq(order, i, Len(order))

\* A tick from its start: the inbox is drained, then every Tee is read once.
route_tick(r, requests) ==
    LET d == route_drain(r, requests) IN
    IF d.blocked
    THEN [r |-> d.r, requests |-> d.requests]
    ELSE [r |-> route_read(d.r, ReadOrder(d.r), "stdout"), requests |-> <<>>]

\* The thread goes on from the tx.send it waited in: the rest of the
\* StopForwarding arm and of the tick, or the rest of the for loop.
route_resume(r, requests, alias) ==
    LET s == r.ios[alias].send
        r1 == complete_send(r, alias)
    IN  IF s.at = "drain"
        THEN LET d == drain_then_unset(r1, alias, s.out, s.times # 0, s.times - 1) IN
             IF d.blocked
             THEN [r |-> d.r, requests |-> requests]
             ELSE route_tick(d.r, requests)
        ELSE [r |-> IF s.out = "stdout"
                    THEN route_read(r1, ReadOrderFrom(r1, alias), "stderr")
                    ELSE route_read(r1, Tail(ReadOrderFrom(r1, alias)), "stdout"),
              requests |-> requests]

\* The Router has a request to take or a slice to read.
RouterHasWork ==
    (io_requests = <<>>)
        => \E alias \in DOMAIN ios :
              \E out \in {"stdout", "stderr"} : ios[alias][out].pipe # <<>>

\* One step of the Router thread, up to its sleep or to the tx.send it has to
\* wait in. A tick that finds no request and no slice changes nothing.
route ==
    /\ ~RouterBlocked(Router)
    /\ IF Sending(Router) = {}
       THEN /\ RouterHasWork
            /\ LET t == route_tick(Router, io_requests) IN
               /\ ios' = t.r.ios
               /\ streams' = t.r.streams
               /\ io_requests' = t.requests
       ELSE LET t == route_resume(Router, io_requests,
                                  CHOOSE alias \in Sending(Router) : TRUE)
            IN  /\ ios' = t.r.ios
                /\ streams' = t.r.streams
                /\ io_requests' = t.requests
    /\ UNCHANGED <<services, disk, jobs, watched, inbox, reply, g_warned,
                   g_finished, g_start_to, g_nreq, g_up, g_loaded, alive>>

\* RouterRequest::start_forwarding: the request is sent and the caller waits
\* for the Router's reply.
start_forwarding(r, alias, tx) ==
    [io |-> route_request(r, StartForwarding(alias, tx)).r,
     res |-> route_reply(r, StartForwarding(alias, tx))]

\* Attach: a channel is made and handed to the Router; when the Router takes
\* it a forwarder is spawned; otherwise the channel is dropped and the error
\* is surfaced.
attach_job(r, alias) ==
    LET tx == Len(r.streams) + 1
        g_from == IF alias \in DOMAIN r.ios THEN r.ios[alias].stdout.g_wrote ELSE 0
        f == start_forwarding([r EXCEPT !.streams = Append(@, Stream(alias, g_from))],
                              alias, tx)
    IN  IF f.res = Ok THEN f
        ELSE [io |-> [f.io EXCEPT !.streams = r.streams], res |-> f.res]

\* One message of the inbox, handled by the Orchestrator's loop.
orchestrate ==
    /\ alive
    /\ inbox # <<>>
    /\ inbox' = Tail(inbox)
    /\ LET message == Head(inbox) IN
       IF message.type = "Request" /\ message.action = "Attach"
       THEN LET r == attach_job(Router, message.alias) IN
            \* resp_rx.recv() returns when the Router has taken the request
            /\ ~RouterBlocked(Router)
            /\ ios' = r.io.ios
            /\ streams' = r.io.streams
            /\ reply' = IF r.res = Ok THEN reply ELSE ResponsePart(message, r.res)
            /\ UNCHANGED <<services, jobs, watched, io_requests, g_warned,
                           g_finished, g_start_to, g_up, g_loaded, alive>>
       ELSE /\ IF message.type = "Request"
               THEN \E dies \in Outcomes(message.action \in {"Stop", "Restart", "Reload"}),
                       order \in Orders(DOMAIN services \cup DOMAIN disk),
                       loads \in Outcomes(message.action = "Reload") :
                       LET r == handle_request(Orch, message, order, dies, loads) IN
                       /\ Commit(r.o)
                       /\ reply' = ResponsePart(message, r.res)
               ELSE \E overflow_checks \in Outcomes(message.status.tag = "Finished") :
                       /\ Commit(manage_event([Orch EXCEPT
                                                  !.overflow_checks = overflow_checks],
                                              message))
                       /\ reply' = reply
            /\ UNCHANGED <<ios, streams>>
    /\ UNCHANGED <<disk, g_nreq>>

\* ------------------------------------------------------------ environment
\* A client connection posts a request in the inbox (process_request).
Post(action, alias) ==
    /\ g_nreq < MaxRequests
    /\ Len(inbox) < MaxInbox
    /\ inbox' = Append(inbox, Request(action, alias))
    /\ g_nreq' = g_nreq + 1
    /\ UNCHANGED <<services, disk, jobs, watched, io_requests, ios, streams, reply,
                   g_warned, g_finished, g_start_to, g_up, g_loaded, alive>>

ClientStart == \E alias \in Aliases : Post("Start", alias)
ClientStop == \E alias \in Aliases : Post("Stop", alias)
ClientRestart == \E alias \in Aliases : Post("Restart", alias)
ClientReload == Post("Reload", "")

\* The child exits by itself with some code.
ProcessExitsWith(codes) ==
    \E alias \in DOMAIN watched, code \in codes :
        /\ watched[alias].process.st = "run"
        /\ watched' = [watched EXCEPT ![alias].process.st = "zombie",
                                      ![alias].process.code = code]
        /\ UNCHANGED <<services, disk, jobs, inbox, io_requests, ios, streams, reply,
                       g_warned, g_finished, g_start_to, g_nreq,
                       g_up, g_loaded, alive>>

ProcessExits == ProcessExitsWith(ExitCodes)

\* A second goes by for an armed deadline.
TimePasses ==
    \E alias \in DOMAIN watched :
        /\ watched[alias].timeout.set
        /\ watched[alias].timeout.left > 0
        /\ watched' = [watched EXCEPT ![alias].timeout.left = @ - 1]
        /\ UNCHANGED <<services, disk, jobs, inbox, io_requests, ios, streams, reply,
                       g_warned, g_finished, g_start_to, g_nreq,
                       g_up, g_loaded, alive>>

\* A service file is written with another definition, or deleted. Only
\* load_services, called by Reload, reads the files: an edit is taken at the
\* last moment before the Reload that sees it.
EditDisk ==
    /\ inbox # <<>>
    /\ Head(inbox) = Request("Reload", "")
    /\ \E alias \in Aliases :
          \/ \E service \in ServiceDefs :
                /\ (alias \in DOMAIN disk => disk[alias] # service)
                /\ disk' = Insert(disk, alias, service)
          \/ /\ alias \in DOMAIN disk
             /\ disk' = Remove(disk, alias)
    /\ UNCHANGED <<services, jobs, watched, inbox, io_requests, ios, streams, reply,
                   g_warned, g_finished, g_start_to, g_nreq,
                       g_up, g_loaded, alive>>

\* ------------------------------------------------------------------- Spec
NoReply == [action |-> "", alias |-> "", part |-> "", text |-> ""]

\* Orchestrator::new after Services::new loaded the files on disk.
Init ==
    /\ disk \in [Aliases -> ServiceDefs]
    /\ services = disk
    /\ jobs = EmptyMap
    /\ watched = EmptyMap
    /\ inbox = <<>>
    /\ io_requests = <<>>
    /\ ios = EmptyMap
    /\ streams = <<>>
    /\ reply = NoReply
    /\ g_warned = FALSE
    /\ g_finished = [a \in Aliases |-> 0]
    /\ g_start_to = {}
    /\ g_nreq = 0
    /\ g_up = <<>>
    /\ g_loaded = disk
    /\ alive = TRUE

\* The Router's tick reads and writes only io_requests and ios, which no other
\* thread reads: it commutes with every other step, and is taken first.
RouterIdle == io_requests = <<>>

Next ==
    \/ route
    \/ RouterIdle /\ orchestrate
    \/ RouterIdle /\ watch
    \/ RouterIdle /\ ClientStart
    \/ RouterIdle /\ ClientStop
    \/ RouterIdle /\ ClientRestart
    \/ RouterIdle /\ ClientReload
    \/ RouterIdle /\ ProcessExits
    \/ RouterIdle /\ TimePasses
    \/ RouterIdle /\ EditDisk

Spec == Init /\ [][Next]_vars

\* The server with clients that start a job once and then only stop it.
FirstStart == g_nreq = 0 /\ ClientStart

LifecycleNext ==
    \/ route
    \/ RouterIdle /\ orchestrate
    \/ RouterIdle /\ watch
    \/ RouterIdle /\ FirstStart
    \/ RouterIdle /\ ClientStop
    \/ RouterIdle /\ ProcessExits
    \/ RouterIdle /\ TimePasses

\* The Orchestrator loop, the Watcher thread and the I/O Router thread run for
\* as long as the server does, and time passes.
LifecycleSpec ==
    /\ Init
    /\ [][LifecycleNext]_vars
    /\ WF_vars(route)
    /\ WF_vars(RouterIdle /\ orchestrate)
    /\ WF_vars(RouterIdle /\ watch)
    /\ WF_vars(RouterIdle /\ TimePasses)

\* ------------------------------------------------------------------ claims
\* The step is the Orchestrator taking `request` from the head of the inbox.
HandlesRequest(action, alias) ==
    /\ RouterIdle
    /\ inbox # <<>>
    /\ Head(inbox) = Request(action, alias)
    /\ inbox' = Tail(inbox)

\* The step is the Orchestrator's manage_event going past its two early
\* returns for an event of `alias` whose status has tag `tag`.
HandlesEvent(alias, tag) ==
    /\ RouterIdle
    /\ inbox # <<>>
    /\ Head(inbox).type = "Event"
    /\ Head(inbox).alias = alias
    /\ Head(inbox).status.tag = tag
    /\ inbox' = Tail(inbox)
    /\ alias \in DOMAIN services
    /\ alias \in DOMAIN jobs

\* C1: no Start, from a client or issued as a restart, spawns a process for an
\* alias that still has a Watched entry: watched.insert in start_job never
\* returns an old entry, so an alias never has two Watched processes. A Job in
\* a status that start_request accepts (Created, Finished) has no Watched entry.
C1_StartNeverOverwritesWatched ==
    /\ g_warned = FALSE
    /\ \A a \in DOMAIN watched :
          a \in DOMAIN jobs /\ jobs[a].status.tag \notin {"Created", "Finished"}

\* A Start was refused while the respawned process of the alias is watched.
C1_Witness ==
    \E a \in DOMAIN watched :
        /\ g_finished[a] >= 1
        /\ reply.action = "Start"
        /\ reply.alias = a
        /\ reply.text = ServiceAlreadyStarted

\* C2: with restart = Always(n) and a process that always exits by itself, one
\* client Start gives n + 1 Finished events, and the Job then rests in Finished
\* with retries = n.
C2_AlwaysGivesNPlusOneRuns ==
    \A a \in DOMAIN jobs :
        ( /\ g_nreq = 1
          /\ a \in DOMAIN services
          /\ services[a].restart.type = "Always"
          /\ jobs[a].status.tag = "Finished"
          /\ a \notin DOMAIN watched
          /\ inbox = <<>> )
        => /\ g_finished[a] = services[a].restart.retries + 1
           /\ jobs[a].retries = services[a].restart.retries

\* C3: with restart = OnError(max), a Finished(c) with c in exit_codes, handled
\* while the Job is not Stopping, respawns nothing and leaves retries as it was.
C3_ExpectedExitKeepsRetries ==
    [][\A a \in Aliases :
        ( /\ HandlesEvent(a, "Finished")
          /\ jobs[a].status # Stopping
          /\ services[a].restart.type = "OnError"
          /\ validate_exit_code(services[a], Head(inbox).status.code) )
        => /\ a \notin DOMAIN watched'
           /\ jobs'[a].retries = jobs[a].retries]_vars

\* C4: a Finished handled while the Job is Stopping leaves retries as it was, and
\* the job is respawned if and only if the restart_job flag is set.
C4_StoppedJobFollowsRestartFlag ==
    [][\A a \in Aliases :
        (HandlesEvent(a, "Finished") /\ jobs[a].status = Stopping)
        => /\ jobs'[a].retries = jobs[a].retries
           /\ (a \in DOMAIN watched') <=> jobs[a].flags.restart_job]_vars

\* C5: a Job is Running(true) only once the Watcher has emitted the TimedOut of
\* the start_time deadline of the process it is watching.
C5_HealthyOnlyAfterStartDeadline ==
    \A a \in DOMAIN jobs : jobs[a].status = Running(TRUE) => a \in g_start_to

\* C6 (stays there): while the process keeps running and no Stop, Restart or
\* Reload is handled, a Job that is Running(true) stays Running(true).
C6_HealthyStaysHealthy ==
    [][\A a \in DOMAIN jobs :
        ( /\ jobs[a].status = Running(TRUE)
          /\ a \in DOMAIN watched
          /\ watched[a].process.st = "run"
          /\ a \in DOMAIN watched'
          /\ watched'[a].process.st = "run"
          /\ ~HandlesRequest("Stop", a)
          /\ ~HandlesRequest("Restart", a)
          /\ ~HandlesRequest("Reload", "") )
        => jobs'[a].status = Running(TRUE)]_vars

\* The last request answered is a Stop of `a` that was accepted, and the Job is
\* still Stopping with its process watched.
StopAccepted(a) ==
    /\ reply.action = "Stop"
    /\ reply.alias = a
    /\ reply.text = Ok
    /\ a \in DOMAIN jobs
    /\ jobs[a].status = Stopping
    /\ a \in DOMAIN watched

\* C7: after an accepted Stop the Job eventually is Finished: it never stays
\* Stopping (or TimedOut) for ever.
C7_StopReachesFinished ==
    \A a \in Aliases :
        StopAccepted(a) ~> (a \in DOMAIN jobs /\ jobs[a].status.tag = "Finished")

\* C8: a TimedOut handled while the Job is Stopping comes from a deadline that
\* kill_job armed, never from the start_time deadline armed at spawn.
C8_EscalationOnlyOnStopDeadline ==
    [][\A a \in Aliases :
        (HandlesEvent(a, "TimedOut") /\ jobs[a].status = Stopping)
        => Head(inbox).g_kind = "stop"]_vars

\* C9: a Start for a Job that is Starting, Running, Stopping or TimedOut is
\* answered ServiceAlreadyStarted and changes nothing.
C9_RefusedStartChangesNothing ==
    [][\A a \in DOMAIN jobs :
        ( /\ HandlesRequest("Start", a)
          /\ jobs[a].status.tag \in {"Starting", "Running", "Stopping", "TimedOut"} )
        => /\ reply'.text = ServiceAlreadyStarted
           /\ jobs' = jobs
           /\ watched' = watched
           /\ io_requests' = io_requests
           /\ ios' = ios]_vars

\* C10: a Stop is accepted only for a Job that is Starting or Running, which
\* becomes Stopping with the flags of the request; any other Stop is refused
\* with the error of its case and leaves the Job and its process as they were.
C10_StopContract ==
    [][\A a \in Aliases :
        HandlesRequest("Stop", a) =>
            IF a \notin DOMAIN jobs
            THEN reply'.text = JobNotFound /\ jobs' = jobs /\ watched' = watched
            ELSE IF jobs[a].status.tag \in {"Starting", "Running"}
            THEN /\ jobs'[a].status = Stopping
                 /\ jobs'[a].flags = DefaultFlags
            ELSE /\ reply'.text = StopResponse(jobs[a].status)
                 /\ jobs' = jobs
                 /\ watched' = watched]_vars

\* C11: a client Restart of a Job that is Created or Finished is answered with
\* a success (Info) part, and so is a Reload whose diff restarts such a Job.
C11_RestartOfStoppedJobSucceeds ==
    [][\A a \in Aliases :
        /\ ( /\ HandlesRequest("Restart", a)
             /\ a \in DOMAIN jobs
             /\ jobs[a].status.tag \in {"Created", "Finished"} )
           => reply'.part = "Info"
        /\ ( /\ HandlesRequest("Reload", "")
             /\ a \in DOMAIN jobs
             /\ jobs[a].status.tag \in {"Created", "Finished"}
             /\ update_diff(services, disk, <<a>>) = <<a>> )
           => reply'.part = "Info"]_vars

\* C12: a Start that fails with JobIoError or ServiceNotFound creates no Watched
\* entry and no Tee, and does not leave the Job Starting without a process.
C12_FailedStartIsRetryable ==
    [][\A a \in Aliases :
        ( /\ HandlesRequest("Start", a)
          /\ reply'.text \in {JobIoError, ServiceNotFound} )
        => /\ a \notin DOMAIN watched'
           /\ io_requests' = io_requests
           /\ a \in DOMAIN jobs' => jobs'[a].status # Starting]_vars

\* C13: a Reload that finds the service files as they were last loaded computes
\* an empty diff, leaves the registry and every Job's status as they were and
\* is answered Ok.
C13_UnchangedReloadIsNoOp ==
    [][( /\ HandlesRequest("Reload", "")
         /\ disk = g_loaded
         /\ reply'.text # ServiceUpdate )
       => /\ g_up' = <<>>
          /\ services' = services
          /\ \A a \in DOMAIN jobs : jobs'[a].status = jobs[a].status
          /\ reply'.text = Ok]_vars

\* C17: a Reload whose load of the service files fails is answered with one
\* Error part and changes nothing: no action of a diff is run, and the
\* registry, the jobs and the watched processes stay as they were.
C17_FailedLoadChangesNothing ==
    [][( /\ HandlesRequest("Reload", "")
         /\ reply'.text = ServiceUpdate )
       => /\ reply'.part = "Error"
          /\ g_up' = <<>>
          /\ services' = services
          /\ jobs' = jobs
          /\ watched' = watched
          /\ io_requests' = io_requests]_vars

\* A failed load was answered while a process is watched and the files differ
\* from the registry.
C17_Witness ==
    /\ reply.action = "Reload"
    /\ reply.text = ServiceUpdate
    /\ watched # << >>
    /\ disk # services
    /\ g_loaded # disk

\* ------------------------------------------------------------- ReloadSpec
\* The server with two service files, the services main starts before it
\* accepts clients, and clients that only reload.
ReloadAliases == {"a1", "a2"}
ReloadDefs == {SvcNever, SvcAlways}
ServiceMaps == UNION {[S -> ReloadDefs] : S \in SUBSET ReloadAliases}

ReloadInit ==
    /\ disk \in ServiceMaps
    /\ services \in ServiceMaps
    /\ jobs = EmptyMap
    /\ watched = EmptyMap
    /\ inbox = <<>>
    /\ io_requests = <<>>
    /\ ios = EmptyMap
    /\ streams = <<>>
    /\ reply = NoReply
    /\ g_warned = FALSE
    /\ g_finished = [a \in ReloadAliases |-> 0]
    /\ g_start_to = {}
    /\ g_nreq = 0
    /\ g_up = <<>>
    /\ g_loaded = services
    /\ alive = TRUE

\* startup_services: one Start per configured service, each sent when the
\* one before was answered, and before any client is served.
startup_services ==
    /\ g_nreq = 0
    /\ inbox = <<>>
    /\ reply.part # "Error"
    /\ \E alias \in DOMAIN services \ DOMAIN jobs :
          inbox' = <<Request("Start", alias)>>
    /\ UNCHANGED <<services, disk, jobs, watched, io_requests, ios, streams, reply,
                   g_warned, g_finished, g_start_to, g_nreq, g_up, g_loaded, alive>>

ReloadNext ==
    \/ route
    \/ RouterIdle /\ orchestrate
    \/ RouterIdle /\ startup_services
    \/ RouterIdle /\ ClientReload

ReloadSpec == ReloadInit /\ [][ReloadNext]_vars

\* The actions of the diff `up` that name `alias`.
ActionsFor(up, alias) == SelectSeq(up, LAMBDA r : r.alias = alias)

\* C14: a Reload puts every alias of the registry or of the files in exactly
\* one case. In both and equal: no action. In both and different: one Restart,
\* run as a stop with remove_service and restart_job. Only in the registry: one
\* Stop, run as a stop with remove_service alone. Only in the files: no action,
\* and the alias enters the registry. No alias gets two actions, and the diff
\* holds no Start.
C14_DiffClassifiesEveryAlias ==
    [][( /\ HandlesRequest("Reload", "")
         /\ reply'.text # ServiceUpdate )
       => /\ \A i \in 1..Len(g_up') : g_up'[i].action \in {"Restart", "Stop"}
          /\ \A a \in DOMAIN services \cup DOMAIN disk :
                LET acts == ActionsFor(g_up', a)
                    accepted == /\ a \in DOMAIN jobs
                                /\ jobs[a].status # Stopping
                                /\ jobs'[a].status = Stopping
                IN
                /\ Len(acts) <= 1
                /\ (a \in DOMAIN services /\ a \in DOMAIN disk /\ services[a] = disk[a])
                      => acts = <<>>
                /\ (a \in DOMAIN services /\ a \in DOMAIN disk /\ services[a] # disk[a])
                      => /\ acts = <<Request("Restart", a)>>
                         /\ accepted => jobs'[a].flags =
                                           [remove_service |-> TRUE, restart_job |-> TRUE]
                /\ (a \in DOMAIN services /\ a \notin DOMAIN disk)
                      => /\ acts = <<Request("Stop", a)>>
                         /\ accepted => jobs'[a].flags =
                                           [remove_service |-> TRUE, restart_job |-> FALSE]
                /\ (a \notin DOMAIN services /\ a \in DOMAIN disk)
                      => /\ acts = <<>>
                         /\ a \in DOMAIN services'
                         /\ services'[a] = disk[a]
                /\ acts = <<>> => (a \in DOMAIN jobs => jobs'[a] = jobs[a])]_vars

\* A Reload found one service modified and one deleted, and stopped both jobs.
C14_Witness ==
    /\ reply.action = "Reload"
    /\ Len(g_up) = 2
    /\ g_up[1].action = "Restart"
    /\ g_up[2].action = "Stop"
    /\ \A a \in ReloadAliases : a \in DOMAIN jobs /\ jobs[a].status = Stopping
    /\ jobs[g_up[1].alias].flags = [remove_service |-> TRUE, restart_job |-> TRUE]
    /\ jobs[g_up[2].alias].flags = [remove_service |-> TRUE, restart_job |-> FALSE]

\* C15: when the Finished event arrives for a job that a Reload stopped because
\* its service was modified, the job is respawned: it has a Watched process
\* again and is Starting, and its alias is still in the registry with the
\* definition the Reload loaded.
C15_ModifiedServiceIsRespawned ==
    [][\A a \in Aliases :
        ( /\ HandlesEvent(a, "Finished")
          /\ jobs[a].status = Stopping
          /\ jobs[a].flags = [remove_service |-> TRUE, restart_job |-> TRUE]
          /\ services[a].spawn_ok )
        => /\ a \in DOMAIN services'
           /\ services'[a] = services[a]
           /\ a \in DOMAIN watched'
           /\ jobs'[a].status = Starting]_vars

\* C16: when the Finished event consumes the remove_service flag of a stopped
\* job that is not to be restarted, both the Service entry and the Job entry
\* of the alias are deleted.
C16_RemovedServiceLeavesNoJob ==
    [][\A a \in Aliases :
        ( /\ HandlesEvent(a, "Finished")
          /\ jobs[a].status = Stopping
          /\ jobs[a].flags = [remove_service |-> TRUE, restart_job |-> FALSE] )
        => /\ a \notin DOMAIN services'
           /\ a \notin DOMAIN jobs']_vars

\* C20: the Watcher sends Finished for a Watched process once after it exits
\* and never a second time.
C20_OneFinishedPerProcess ==
    \A a \in DOMAIN watched : watched[a].process.g_fin <= 1

\* --------------------------------------------------------------- WearSpec
\* The server with one service that is restarted as often as a u8 counts, and
\* clients that only start it.
SvcAlwaysMax ==
    [restart |-> Always(U8 - 1), exit_codes |-> {0}, start_time |-> 1, stop_wait |-> 1,
     spawn_ok |-> TRUE, sinks_ok |-> TRUE]

WearInit ==
    /\ disk = [a \in Aliases |-> SvcAlwaysMax]
    /\ services = disk
    /\ jobs = EmptyMap
    /\ watched = EmptyMap
    /\ inbox = <<>>
    /\ io_requests = <<>>
    /\ ios = EmptyMap
    /\ streams = <<>>
    /\ reply = NoReply
    /\ g_warned = FALSE
    /\ g_finished = [a \in Aliases |-> 0]
    /\ g_start_to = {}
    /\ g_nreq = 0
    /\ g_up = <<>>
    /\ g_loaded = disk
    /\ alive = TRUE

WearNext ==
    \/ route
    \/ RouterIdle /\ orchestrate
    \/ RouterIdle /\ watch
    \/ RouterIdle /\ ClientStart
    \/ RouterIdle /\ ProcessExits
    \/ RouterIdle /\ TimePasses

WearSpec == WearInit /\ [][WearNext]_vars

\* C19: no step makes the retries of a Job smaller than it was, and no step
\* adds more than 1 to it.
C19_RetriesNeverDecrease ==
    [][\A a \in DOMAIN jobs :
        a \in DOMAIN jobs'
        => /\ jobs'[a].retries >= jobs[a].retries
           /\ jobs'[a].retries <= jobs[a].retries + 1]_vars

\* -------------------------------------------------------------- CycleSpec
\* The server with a service that runs until it is stopped: it is started by
\* startup_services, then a client stops it and, once it is Finished, starts
\* it again.
StopStarted ==
    /\ g_nreq = 0
    /\ \E alias \in DOMAIN watched : Post("Stop", alias)

StartStopped ==
    /\ g_nreq = 1
    /\ reply.action = "Stop"
    /\ reply.text = Ok
    /\ \E alias \in DOMAIN jobs :
          /\ jobs[alias].status.tag = "Finished"
          /\ Post("Start", alias)

CycleNext ==
    \/ route
    \/ RouterIdle /\ orchestrate
    \/ RouterIdle /\ watch
    \/ RouterIdle /\ startup_services
    \/ RouterIdle /\ StopStarted
    \/ RouterIdle /\ StartStopped
    \/ RouterIdle /\ TimePasses

CycleSpec == Init /\ [][CycleNext]_vars

C25_EventsFollowTransitionTable ==
    [][\A a \in Aliases :
        LET event == Head(inbox).status
            prev == jobs[a].status
            table ==
                CASE event.tag \in {"Starting", "Created", "Stopping"} -> event
                  [] event.tag = "Running" ->
                        CASE prev.tag = "Starting" -> Running(FALSE)
                          [] prev.tag = "TimedOut" -> Running(TRUE)
                          [] prev.tag = "Stopping" -> Stopping
                          [] OTHER -> event
                  [] event.tag = "Finished" ->
                        IF a \in DOMAIN watched' THEN Starting ELSE event
                  [] event.tag = "TimedOut" ->
                        CASE prev.tag \in {"Starting", "Running"} -> Running(TRUE)
                          [] prev.tag \in {"TimedOut", "Stopping"} -> Stopping
                          [] OTHER -> TimedOut
        IN  /\ (\E tag \in {"Starting", "Created", "Stopping", "Running", "Finished",
                            "TimedOut"} : HandlesEvent(a, tag))
                  => jobs'[a].status = table
            /\ ( /\ RouterIdle
                 /\ inbox # <<>>
                 /\ Head(inbox).type = "Event"
                 /\ Head(inbox).alias = a
                 /\ inbox' = Tail(inbox)
                 /\ (a \notin DOMAIN services \/ a \notin DOMAIN jobs) )
                  => jobs' = jobs /\ services' = services]_vars

\* --------------------------------------------------------------- BootSpec
\* The server as main boots it: the configured service is started by
\* startup_services, then clients start, stop and restart it.
BootNext ==
    \/ route
    \/ RouterIdle /\ orchestrate
    \/ RouterIdle /\ watch
    \/ RouterIdle /\ startup_services
    \/ RouterIdle /\ ClientStart
    \/ RouterIdle /\ ClientStop
    \/ RouterIdle /\ ClientRestart
    \/ RouterIdle /\ ProcessExits
    \/ RouterIdle /\ TimePasses

BootSpec == Init /\ [][BootNext]_vars

\* C26: a Job that is Stopping, with its process still watched, stays Stopping
\* until a Finished event for its alias is handled: no other event and no
\* request changes its status.
C26_StoppingLeftOnlyByFinished ==
    [][\A a \in DOMAIN jobs :
        ( /\ jobs[a].status = Stopping
          /\ a \in DOMAIN watched
          /\ (a \notin DOMAIN jobs' \/ jobs'[a].status # Stopping) )
        => HandlesEvent(a, "Finished")]_vars

\* C27: the flags of a Job whose service can be spawned are at their defaults
\* in every state where its status is not Stopping: only an accepted Stop sets them, and the Finished
\* transition that ends the stop resets them.
C27_FlagsSetOnlyWhileStopping ==
    \A a \in DOMAIN jobs \cap DOMAIN services :
        (services[a].spawn_ok /\ jobs[a].status # Stopping)
        => jobs[a].flags = DefaultFlags

\* C28: every alias that has a Watched entry also has a Job entry.
C28_WatchedImpliesJob ==
    DOMAIN watched \subseteq DOMAIN jobs

\* A process is watched for a Job that has finished before and was started
\* again: the Job outlived its first Watched entry.
C28_Witness ==
    \E a \in DOMAIN watched :
        /\ g_finished[a] >= 1
        /\ jobs[a].started >= 2
        /\ watched[a].process.st = "run"

\* C30: while the last status the Watcher sent for a process is TimedOut and
\* its deadline is still expired, a tick sends no further TimedOut for it.
C30_TimedOutSentOnce ==
    [][\A a \in DOMAIN watched :
        ( /\ has_timed_out(watched[a].timeout)
          /\ watched[a].previous_status = TimedOut )
        => \A i \in (Len(inbox) + 1)..Len(inbox') :
              ~ ( /\ inbox'[i].type = "Event"
                  /\ inbox'[i].alias = a
                  /\ inbox'[i].status = TimedOut )]_vars

\* ------------------------------------------------------------------ Attach
\* The slices a child writes to its stdout in the model.
MaxWrites == 2

\* A definition that is restarted when it exits, and one whose default stdout path
\* cannot be opened.
SvcAgain ==
    [restart |-> Always(2), exit_codes |-> {0}, start_time |-> 1, stop_wait |-> 0,
     spawn_ok |-> TRUE, sinks_ok |-> TRUE]
SvcNoSink ==
    [restart |-> Never, exit_codes |-> {0}, start_time |-> 1, stop_wait |-> 0,
     spawn_ok |-> TRUE, sinks_ok |-> FALSE]
AttachDefs == {SvcAgain, SvcNoSink}

ClientAttach == \E alias \in Aliases : Post("Attach", alias)

\* The child ends its work and exits with code 0.
ChildExits == ProcessExitsWith({0})

\* The child writes one more slice to its stdout pipe.
ChildWrites ==
    \E alias \in DOMAIN ios \cap DOMAIN watched :
        /\ watched[alias].process.st = "run"
        /\ ios[alias].stdout.g_wrote < MaxWrites
        /\ ios' = [ios EXCEPT ![alias].stdout.pipe = Append(@, ios[alias].stdout.g_wrote + 1),
                              ![alias].stdout.g_wrote = @ + 1]
        /\ UNCHANGED <<services, disk, jobs, watched, inbox, io_requests, streams,
                       reply, g_warned, g_finished, g_start_to, g_nreq, g_up,
                       g_loaded, alive>>

\* The forwarder of an Attach request copies one slice of its channel into a
\* Stream part on the reply channel.
forwarder ==
    \E tx \in DOMAIN streams :
        /\ streams[tx].chan # <<>>
        /\ streams' = [streams EXCEPT ![tx].parts = Append(@, Head(streams[tx].chan)),
                                      ![tx].chan = Tail(@)]
        /\ UNCHANGED <<services, disk, jobs, watched, inbox, io_requests, ios,
                       reply, g_warned, g_finished, g_start_to, g_nreq, g_up,
                       g_loaded, alive>>

\* The forwarder finds its channel closed: it issues StopForwarding, pushes the
\* final Info part and ends.
forwarder_close ==
    \E tx \in DOMAIN streams :
        /\ streams[tx].chan = <<>>
        /\ streams[tx].closed
        /\ ~streams[tx].done
        /\ streams' = [streams EXCEPT ![tx].done = TRUE]
        /\ io_requests' = Append(io_requests, StopForwarding(streams[tx].alias))
        /\ UNCHANGED <<services, disk, jobs, watched, inbox, ios, reply, g_warned,
                       g_finished, g_start_to, g_nreq, g_up, g_loaded, alive>>

AttachInit ==
    /\ disk \in [Aliases -> AttachDefs]
    /\ services = disk
    /\ jobs = EmptyMap
    /\ watched = EmptyMap
    /\ inbox = <<>>
    /\ io_requests = <<>>
    /\ ios = EmptyMap
    /\ streams = <<>>
    /\ reply = NoReply
    /\ g_warned = FALSE
    /\ g_finished = [a \in Aliases |-> 0]
    /\ g_start_to = {}
    /\ g_nreq = 0
    /\ g_up = <<>>
    /\ g_loaded = disk
    /\ alive = TRUE

\* A client attaches when the Orchestrator has emptied its inbox.
ClientAttaches == inbox = <<>> /\ ClientAttach

\* A child exits with code 0 when it has written its MaxWrites slices.
ChildEnds ==
    /\ \A alias \in DOMAIN ios : ios[alias].stdout.g_wrote = MaxWrites
    /\ ChildExits

\* The Router thread has no request to take, or waits in a tx.send.
RouterWaits == (io_requests # <<>>) => RouterBlocked(Router)

\* The server with its configured services started, clients that attach, and
\* children that write and then exit before their start time is over.
AttachNext ==
    \/ route
    \/ RouterWaits /\ orchestrate
    \/ RouterWaits /\ watch
    \/ RouterWaits /\ startup_services
    \/ RouterWaits /\ ClientAttaches
    \/ RouterWaits /\ ChildEnds
    \/ RouterWaits /\ ChildWrites
    \/ RouterWaits /\ forwarder
    \/ RouterWaits /\ forwarder_close

AttachSpec == AttachInit /\ [][AttachNext]_vars

\* C29: once the Router has drained its inbox, an alias has a Tee exactly when
\* it has a Watched entry.
C29_TeeIffWatched == RouterIdle => DOMAIN ios = DOMAIN watched

AttachHandled ==
    /\ alive
    /\ inbox # <<>>
    /\ Head(inbox).type = "Request"
    /\ Head(inbox).action = "Attach"
    /\ inbox' = Tail(inbox)

\* C21: a StartForwarding for an alias whose Tee has a forwarding channel is
\* answered JobAlreadyAttached and leaves the stdout and stderr channels as
\* they were; for an alias without a Tee it is answered JobNotFound and makes
\* nothing; otherwise both channels are set to the new one and no error is
\* answered. An alias never has two channels that take slices.
C21_OneForwarderPerAlias ==
    [][AttachHandled =>
        LET alias == Head(inbox).alias IN
        /\ alias \notin DOMAIN ios
              => reply'.text = JobNotFound /\ ios' = ios /\ streams' = streams
        /\ (alias \in DOMAIN ios /\ ios[alias].stdout.tx # None)
              => /\ reply'.text = JobAlreadyAttached
                 /\ ios' = ios
                 /\ streams' = streams
        /\ (alias \in DOMAIN ios /\ ios[alias].stdout.tx = None)
              => /\ reply' = reply
                 /\ Len(streams') = Len(streams) + 1
                 /\ ios'[alias].stdout.tx = Len(streams')
                 /\ ios'[alias].stderr.tx = Len(streams')
                 /\ \A tx \in DOMAIN streams : streams'[tx] = streams[tx]
        /\ \A t1, t2 \in DOMAIN streams' :
              ( /\ streams'[t1].alias = streams'[t2].alias
                /\ ~streams'[t1].closed
                /\ ~streams'[t2].closed ) => t1 = t2]_vars

\* A second Attach was refused while the first forwarder goes on streaming.
C21_Witness ==
    /\ reply.text = JobAlreadyAttached
    /\ Len(streams) = 1
    /\ ios["a1"].stdout.tx = 1
    /\ streams[1].parts # <<>>

\* The slices the Router has sent on a channel, in the order it sent them.
Sent(stream) == stream.parts \o stream.chan

\* C22 as the spec states it: once the Router has processed the StopForwarding
\* of an attached alias, no Stream part is pushed on that reply channel.
C22_NoStreamPartAfterStop ==
    [][\A tx \in DOMAIN streams :
          streams[tx].closed => streams'[tx].parts = streams[tx].parts]_vars

\* C22: once the Router has processed the StopForwarding of an attached alias
\* it sends no slice on the channel that was attached, whether the job is
\* restarted under the alias or not; the Stream parts pushed afterwards are
\* the slices that were already in the channel.
C22_NoSliceSentAfterStop ==
    [][\A tx \in DOMAIN streams :
          streams[tx].closed => /\ tx \in DOMAIN streams'
                                /\ streams'[tx].closed
                                /\ Sent(streams'[tx]) = Sent(streams[tx])]_vars

\* The job of a stopped stream was restarted, and the Router has read what
\* the new child wrote.
C22_Witness ==
    /\ streams # <<>>
    /\ streams[1].closed
    /\ streams[1].parts # <<>>
    /\ "a1" \in DOMAIN watched
    /\ "a1" \in DOMAIN ios
    /\ ios["a1"].stdout.g_wrote > 0
    /\ ios["a1"].stdout.pipe = <<>>
    /\ ios["a1"].stdout.tx = None

\* C23: while a client is attached to an alias, the Stream parts it has
\* received are, in order, the slices the child wrote to stdout since the
\* attach: the i-th part is the i-th slice written after it.
C23_StreamIsStdoutSinceAttach ==
    \A alias \in DOMAIN ios :
        LET tx == ios[alias].stdout.tx IN
        tx # None =>
            \A i \in DOMAIN streams[tx].parts :
                streams[tx].parts[i] = streams[tx].g_from + i

\* C24: a request other than Attach gets exactly one ResponsePart: as long as
\* one waits in the inbox the Orchestrator's loop is there to take it, and the
\* step that takes it pushes one part for it on its reply channel.
C24_OneResponsePerRequest ==
    /\ [](\A i \in DOMAIN inbox :
             (inbox[i].type = "Request" /\ inbox[i].action # "Attach") => alive)
    /\ [][( /\ inbox # <<>>
            /\ Head(inbox).type = "Request"
            /\ Head(inbox).action # "Attach"
            /\ inbox' = Tail(inbox) )
          => /\ reply'.action = Head(inbox).action
             /\ reply'.alias = Head(inbox).alias
             /\ reply'.part \in {"Info", "Error"}]_vars

\* C40: the u8 retries counter never overflows: no step taken with retries at
\* 255 wraps it to 0 or ends the Orchestrator's thread.
C40_RetriesNeverOverflow ==
    [][\A a \in DOMAIN jobs :
          jobs[a].retries = U8 - 1
          => /\ alive'
             /\ a \in DOMAIN jobs' => jobs'[a].retries # 0]_vars

\* C39: a Job whose service is registered and that has no Watched process is
\* Created or Finished, the two statuses in which a Start is accepted.
C39_NoProcessMeansStartable ==
    \A a \in (DOMAIN jobs \cap DOMAIN services) \ DOMAIN watched :
        jobs[a].status.tag \in {"Created", "Finished"}

\* The event at the head of the inbox is for `alias` and was sent for a process
\* that came before the one now watched: a Finished although the Watcher sent
\* none for this process, or a start deadline's TimedOut although none was
\* sent for this Watched entry.
StaleEvent(alias) ==
    /\ inbox # <<>>
    /\ Head(inbox).type = "Event"
    /\ Head(inbox).alias = alias
    /\ alias \in DOMAIN watched
    /\ IF Head(inbox).status.tag = "Finished"
       THEN watched[alias].process.g_fin = 0
       ELSE /\ Head(inbox).status = TimedOut
            /\ Head(inbox).g_kind = "start"
            /\ alias \notin g_start_to

\* C38: an event of an earlier process of the alias, handled after the respawn,
\* leaves the Job's status, the new Watched entry (its process, its deadline)
\* and the new Tee as they are.
C38_StaleEventChangesNothing ==
    [][\A a \in DOMAIN watched :
          (StaleEvent(a) /\ HandlesEvent(a, Head(inbox).status.tag))
          => /\ a \in DOMAIN watched'
             /\ watched'[a] = watched[a]
             /\ jobs'[a].status = jobs[a].status
             /\ io_requests' = io_requests]_vars

\* C37: a Reload that read the files removes from the registry every alias
\* whose file is gone and whose job has no process, and is answered Ok when
\* that is all the diff holds.
C37_ReloadDropsDeletedIdleService ==
    [][(HandlesRequest("Reload", "") /\ reply'.text # ServiceUpdate)
       => \A a \in DOMAIN services \ DOMAIN disk :
             a \notin DOMAIN watched
             => /\ a \notin DOMAIN services'
                /\ DOMAIN services = {a} => reply'.text = Ok]_vars

\* ---------------------------------------------------------- CompositeSpec
\* The server of ReloadSpec whose children also exit: a Reload meets jobs
\* that were never started, that run, that are stopping and that finished.
CompositeNext ==
    \/ route
    \/ RouterIdle /\ orchestrate
    \/ RouterIdle /\ watch
    \/ RouterIdle /\ startup_services
    \/ RouterIdle /\ ClientReload
    \/ RouterIdle /\ ChildExits

\* Both services are registered and never restart by themselves; the files
\* are any of ServiceMaps.
CompositeInit ==
    /\ ReloadInit
    /\ services = [a \in ReloadAliases |-> SvcNever]

CompositeSpec == CompositeInit /\ [][CompositeNext]_vars

\* What the action of a diff returns to the Reload loop, from the Stop it runs.
ReloadOutcome(action) ==
    LET res == stop_request(Orch, action.alias, TRUE, action.action = "Restart", TRUE).res
    IN  IF action.action = "Restart" /\ res = ServiceStopped THEN Ok ELSE res

FirstFailure(up) ==
    LET failed == {i \in 1..Len(up) : ReloadOutcome(up[i]) # Ok}
    IN  IF failed = {} THEN Len(up) + 1
        ELSE CHOOSE i \in failed : \A j \in failed : i <= j

\* C36: a Reload whose files loaded answers with the first error met while it
\* runs the actions of the diff in order, or Ok when none fails. Every action
\* up to the first failing one is executed (an accepted stop leaves the job
\* Stopping with remove_service set), no action after it is executed (its job
\* and process are left as they were), and a Restart of a job that is already
\* stopped counts as success.
C36_ReloadReturnsFirstError ==
    [][(HandlesRequest("Reload", "") /\ reply'.text # ServiceUpdate)
       => LET up == g_up'
              first == FirstFailure(up)
          IN  /\ reply'.text = IF first > Len(up) THEN Ok ELSE ReloadOutcome(up[first])
              /\ \A i \in 1..Len(up) :
                    LET a == up[i].alias IN
                    /\ ( /\ i <= first
                         /\ a \in DOMAIN jobs
                         /\ jobs[a].status.tag \in {"Starting", "Running"} )
                       => /\ jobs'[a].status = Stopping
                          /\ jobs'[a].flags.remove_service
                    /\ i > first
                       => /\ a \in DOMAIN jobs => jobs'[a] = jobs[a]
                          /\ a \in DOMAIN watched => watched'[a] = watched[a]
                    /\ ( /\ up[i].action = "Restart"
                         /\ a \in DOMAIN jobs
                         /\ jobs[a].status.tag \in {"Finished", "Created"} )
                       => i # first]_vars

\* A Reload of two actions failed on the first, whose service was never
\* started, and left the running job of the second alone.
C36_Witness ==
    /\ reply = [action |-> "Reload", alias |-> "", part |-> "Error", text |-> JobNotFound]
    /\ Len(g_up) = 2
    /\ g_up[1].alias \notin DOMAIN jobs
    /\ g_up[2].alias \in DOMAIN watched
    /\ jobs[g_up[2].alias].status.tag \in {"Starting", "Running"}
    /\ jobs[g_up[2].alias].flags = [remove_service |-> FALSE, restart_job |-> FALSE]

\* C34: forwarding never blocks the Router. When a tick reads a slice of an
\* attached alias whose channel is full, the slice is dropped for the
\* forwarder and the channel is left as it was, the slice is in the ring
\* buffer and in the default file, the channel stays set, and the Router
\* thread does not wait.
C34_FullChannelDropsSlice ==
    [][\A alias \in DOMAIN ios :
          LET stdout == ios[alias].stdout
              tx == stdout.tx
          IN  ( /\ tx # None
                /\ Full(Router, tx)
                /\ stdout.pipe # <<>>
                /\ io_requests = <<>>
                /\ Sending(Router) = {}
                /\ ios'[alias].stdout.pipe = Tail(stdout.pipe) )
              => /\ ios'[alias].send.at = "none"
                 /\ streams'[tx].chan = streams[tx].chan
                 /\ ios'[alias].stdout.tx = tx
                 /\ ios'[alias].stdout.buff.elems =
                       Append(stdout.buff.elems, Head(stdout.pipe))
                 /\ ios'[alias].stdout.def = Append(stdout.def, Head(stdout.pipe))]_vars

\* C35: the Orchestrator's wait for the reply of a StartForwarding always
\* ends: whenever an Attach request is the next message of the inbox the
\* Orchestrator can handle it, whatever the Router is doing.
C35_AttachNeverWaitsForRouter ==
    ( /\ alive
      /\ inbox # <<>>
      /\ Head(inbox).type = "Request"
      /\ Head(inbox).action = "Attach" )
    => ENABLED orchestrate

\* C31: the step of the Router that takes the StopForwarding of an attached
\* alias drains, then unsets: when it ends every slice the child had written
\* (up to the bound of the drain) has been sent on the attached channel, in
\* order, and only then are the senders dropped and both channels cleared.
C31_StopForwardingDrainsThenUnsets ==
    [][\A alias \in DOMAIN ios :
          LET stdout == ios[alias].stdout
              tx == stdout.tx
          IN  ( /\ tx # None
                /\ Sending(Router) = {}
                /\ io_requests # <<>>
                /\ Head(io_requests) = StopForwarding(alias)
                /\ io_requests' # io_requests
                /\ Len(stdout.pipe) <= DRAIN_TIMES + 1 )
              => /\ streams'[tx].closed
                 /\ Sent(streams'[tx]) = Sent(streams[tx]) \o stdout.pipe
                 /\ alias \in DOMAIN ios'
                       => /\ ios'[alias].stdout.tx = None
                          /\ ios'[alias].stderr.tx = None]_vars

\* ----------------------------------------------------------------- RingSpec
\* The ring buffers and read_buff, on children that write bytes. A slice is
\* the sequence of bytes one read returned. The bytes of the model are ASCII
\* letters, the lead byte 0xC3 and the continuation byte 0xA9 (0xC3 0xA9 is
\* the UTF-8 encoding of one character).
MaxSlices == 3
MaxCap == 2
READ_BUFF_TAIL == 512

Slices ==
    { <<65>>, <<195, 169>>, [i \in 1..(READ_BUFF_TAIL - 1) |-> 66] }

\* .iter().flat_map(|elem| elem.iter().cloned()).collect(), by halves
RECURSIVE Concat(_)
Concat(slices) ==
    IF slices = <<>> THEN <<>>
    ELSE IF Len(slices) = 1 THEN slices[1]
    ELSE LET mid == Len(slices) \div 2 IN
         Concat(SubSeq(slices, 1, mid)) \o Concat(SubSeq(slices, mid + 1, Len(slices)))

\* String::from_utf8_lossy on sequences of one and two bytes: the String, as
\* its UTF-8 bytes. A byte that is not part of a well-formed sequence becomes
\* U+FFFD REPLACEMENT CHARACTER.
from_utf8_lossy(bytes) ==
    LET REPLACEMENT == <<239, 191, 189>>
        IsLead2(b) == b >= 194 /\ b < 224
        IsContinuation(b) == b >= 128 /\ b < 192
        piece(i) ==
            LET b == bytes[i] IN
            IF b < 128 THEN <<b>>
            ELSE IF IsLead2(b)
            THEN IF i < Len(bytes) /\ IsContinuation(bytes[i + 1])
                 THEN <<b>> ELSE REPLACEMENT
            ELSE IF i > 1 /\ IsLead2(bytes[i - 1]) /\ IsContinuation(b)
            THEN <<b>> ELSE REPLACEMENT
    IN  Concat([i \in DOMAIN bytes |-> piece(i)])

\* RouterRequest::read_buff: (stdout, stderr). buf is what the ReadBuff arm of
\* the Router sends on resp_tx.
read_buff(r, alias) ==
    LET buf == IF alias \in DOMAIN r.ios
               THEN <<Concat(r.ios[alias].stdout.buff.elems),
                      Concat(r.ios[alias].stderr.buff.elems)>>
               ELSE << <<>>, <<>> >>
        \* &buf[buf.len().saturating_sub(512)..]
        last(b) == SubSeq(b, (IF Len(b) > READ_BUFF_TAIL
                              THEN Len(b) - READ_BUFF_TAIL ELSE 0) + 1, Len(b))
    IN  <<from_utf8_lossy(last(buf[1])), from_utf8_lossy(last(buf[2]))>>

\* A running child whose Tee has ring buffers of capacity `capacity`.
RingInit ==
    /\ disk = [a \in Aliases |-> SvcNever]
    /\ services = disk
    /\ jobs = [a \in Aliases |-> [Job(Starting) EXCEPT !.started = 1]]
    /\ watched = [a \in Aliases |->
                    Watched(Process, Starting, WatchedTimeout("start", SvcNever.start_time))]
    /\ inbox = <<>>
    /\ io_requests = <<>>
    /\ \E capacity \in 1..MaxCap :
          ios = [a \in Aliases |->
                    [Tee EXCEPT !.stdout.buff = VecDeque(capacity),
                                !.stderr.buff = VecDeque(capacity)]]
    /\ streams = <<>>
    /\ reply = NoReply
    /\ g_warned = FALSE
    /\ g_finished = [a \in Aliases |-> 0]
    /\ g_start_to = {}
    /\ g_nreq = 0
    /\ g_up = <<>>
    /\ g_loaded = disk
    /\ alive = TRUE

\* The child writes a slice to its stdout or to its stderr.
ChildWritesBytes ==
    \E alias \in DOMAIN ios \cap DOMAIN watched :
        \E out \in {"stdout", "stderr"}, slice \in Slices :
            /\ watched[alias].process.st = "run"
            /\ ios[alias].stdout.g_wrote + ios[alias].stderr.g_wrote < MaxSlices
            /\ ios' = [ios EXCEPT ![alias][out].pipe = Append(@, slice),
                                  ![alias][out].g_wrote = @ + 1]
            /\ UNCHANGED <<services, disk, jobs, watched, inbox, io_requests, streams,
                           reply, g_warned, g_finished, g_start_to, g_nreq, g_up,
                           g_loaded, alive>>

\* A Status request reads the buffers of an alias, with or without a Tee; the
\* two Strings are kept as the text of the reply.
ReadsBuff ==
    \E alias \in ReloadAliases :
        /\ ~RouterBlocked(Router)
        /\ reply' = [action |-> "Status", alias |-> alias, part |-> "Info",
                     text |-> read_buff(Router, alias)]
        /\ UNCHANGED <<services, disk, jobs, watched, inbox, io_requests, ios,
                       streams, g_warned, g_finished, g_start_to, g_nreq, g_up,
                       g_loaded, alive>>

RingNext ==
    \/ route
    \/ ChildWritesBytes
    \/ ReadsBuff

RingSpec == RingInit /\ [][RingNext]_vars

\* C32: a ring buffer never holds more slices than its capacity, which does
\* not change; a push on a full buffer evicts exactly the oldest slice and a
\* push on a buffer that is not full evicts nothing; the retained slices are
\* always the most recently read ones, in read order.
C32_RingBufferKeepsNewest ==
    /\ [](\A alias \in DOMAIN ios :
            \A out \in {"stdout", "stderr"} :
                LET stdio == ios[alias][out]
                    \* the slices read from the pipe so far, oldest first
                    read == stdio.def
                    kept == IF Len(read) > stdio.buff.capacity
                            THEN stdio.buff.capacity ELSE Len(read)
                IN  /\ Len(stdio.buff.elems) <= stdio.buff.capacity
                    /\ stdio.buff.elems = SubSeq(read, Len(read) - kept + 1, Len(read)))
    /\ [][\A alias \in DOMAIN ios :
            \A out \in {"stdout", "stderr"} :
                LET stdio == ios[alias][out]
                    buff == stdio.buff
                IN  ( /\ stdio.pipe # <<>>
                      /\ ios'[alias][out].pipe = Tail(stdio.pipe) )
                    => /\ ios'[alias][out].buff.capacity = buff.capacity
                       /\ ios'[alias][out].buff.elems =
                             Append(IF Len(buff.elems) = buff.capacity
                                    THEN Tail(buff.elems) ELSE buff.elems,
                                    Head(stdio.pipe))]_vars

\* A full ring buffer has evicted a slice and holds the newest ones.
C32_Witness ==
    \E alias \in DOMAIN ios :
        LET stdout == ios[alias].stdout IN
        /\ Len(stdout.buff.elems) = stdout.buff.capacity
        /\ stdout.buff.capacity = MaxCap
        /\ Len(stdout.def) > stdout.buff.capacity
        /\ Head(stdout.def) # Head(stdout.buff.elems)

\* C33: read_buff returns, for stdout and for stderr, the bytes of the slices
\* retained in the ring buffer, concatenated and cut to the last 512 (all of
\* them when there are fewer), and two empty results for an alias without a
\* Tee; a step that reads the buffers leaves them as they are.
C33_ReadBuffReturnsLastBytes ==
    /\ [](\A alias \in ReloadAliases :
            LET res == read_buff(Router, alias)
                last(b) == SubSeq(b, (IF Len(b) > READ_BUFF_TAIL
                                      THEN Len(b) - READ_BUFF_TAIL ELSE 0) + 1, Len(b))
            IN  IF alias \in DOMAIN ios
                THEN /\ res[1] = last(Concat(ios[alias].stdout.buff.elems))
                     /\ res[2] = last(Concat(ios[alias].stderr.buff.elems))
                ELSE res = << <<>>, <<>> >>)
    /\ [][reply'.action = "Status" /\ reply' # reply => ios' = ios]_vars

====
